---- MODULE Spec2Model ----
(***************************************************************************)
(* Model of src/playground.cpp (CppWorks/Types-Values).                    *)
(*                                                                         *)
(* Three independent mechanisms of the file are modelled, each under its   *)
(* own specification:                                                      *)
(*   SpecOpt  : Optional<Value<V>>, the sentinel-packed optional           *)
(*   SpecCall : Callable<F>, invocation of inc(int&) from a byte buffer    *)
(*   SpecPack : TypePack, append and operator==                            *)
(***************************************************************************)
EXTENDS Integers, Sequences, FiniteSets, TLC

VARIABLES
  \* ---- Optional<Value<V>> ----
  V,          \* the template argument of Optional<Value<V>>
  value,      \* the private member value_type value
  lastOp,     \* the member function called last on the object
  prevOp,     \* the member function called before that
  prevValue,  \* the member value before the last call
  arg,        \* the argument of the last set()
  got,        \* what the last get() returned
  present,    \* what the last conversion to bool returned
  thrown,     \* whether the last call signalled an error to its caller
  \* ---- Callable<F> ----
  ndebug,     \* whether the translation unit is built with NDEBUG
  m,          \* the Memory (std::vector<uint8_t>) handed to the Callable
  cells,      \* the caller's int objects, by address
  status,     \* how the last invocation ended
  called,     \* whether the last invocation entered the wrapped function
  result,     \* the value the last invocation returned
  before,     \* the buffer and the cells right before the last invocation
  invokes,    \* number of invocations so far
  \* ---- TypePack ----
  packA,      \* a TypePack<A...>
  packB,      \* a TypePack<B...>
  packOp,     \* the last operation on the packs
  packArg,    \* the operands of the last operation
  appended,   \* the pack the last append returned
  equal       \* what the last comparison returned

optVars  == <<V, value, lastOp, prevOp, prevValue, arg, got, present, thrown>>
callVars == <<ndebug, m, cells, status, called, result, before, invokes>>
packVars == <<packA, packB, packOp, packArg, appended, equal>>
vars     == <<optVars, callVars, packVars>>

(***************************************************************************)
(* Bounds                                                                  *)
(***************************************************************************)
MaxValue == 3       \* value_type is modelled as 0..MaxValue

Values == 0..MaxValue

(***************************************************************************)
(* 4a. Optional<Value<V>>                                                  *)
(***************************************************************************)

\* Value<V>::value and Optional<Value<V>>::invalidValue
invalidValue(v) == v

\* value_type value{invalidValue};
DefaultMemberInitZero(v) == 0
DefaultMemberInit(v) == invalidValue(v)

\* constexpr operator bool() const { return value != invalidValue; }
OperatorBoolNonZero(val, v) == val # 0
OperatorBool(val, v) == val # invalidValue(v)

\* constexpr auto reset() { value = invalidValue; } : the member afterwards
resetZero(val, v) == 0
resetToggle(val, v) == IF val = invalidValue(v) THEN (v + 1) % (MaxValue + 1)
                       ELSE invalidValue(v)
reset(val, v) == invalidValue(v)

\* constexpr auto get() const { return value; } : the value returned
getOrOther(val, v) == IF val = invalidValue(v) THEN (v + 1) % (MaxValue + 1)
                      ELSE val
get(val, v) == val

\* constexpr auto set(value_type newValue) { value = newValue; }
setOnce(val, newValue, v) == IF val # invalidValue(v) THEN val ELSE newValue
setRejectInvalid(val, newValue, v) ==
  IF newValue = invalidValue(v) THEN val ELSE newValue
set(val, newValue, v) == newValue

InitOptObject(templateArgs) ==
  /\ V \in templateArgs
  /\ value = DefaultMemberInit(V)
  /\ lastOp = "construct"
  /\ prevOp = "none"
  /\ prevValue = DefaultMemberInit(V)
  /\ arg = invalidValue(V)
  /\ got = invalidValue(V)
  /\ present = FALSE
  /\ thrown = FALSE

\* OptName{} : a new object replaces the old one
Construct ==
  /\ value' = DefaultMemberInit(V)
  /\ lastOp' = "construct"
  /\ prevOp' = lastOp
  /\ prevValue' = value
  /\ thrown' = FALSE
  /\ UNCHANGED <<V, arg, got, present>>
  /\ UNCHANGED <<callVars, packVars>>

CallReset ==
  /\ value' = reset(value, V)
  /\ lastOp' = "reset"
  /\ prevOp' = lastOp
  /\ prevValue' = value
  /\ thrown' = FALSE
  /\ UNCHANGED <<V, arg, got, present>>
  /\ UNCHANGED <<callVars, packVars>>

CallSet ==
  \E newValue \in Values :
    /\ value' = set(value, newValue, V)
    /\ arg' = newValue
    /\ lastOp' = "set"
    /\ prevOp' = lastOp
    /\ prevValue' = value
    /\ thrown' = FALSE
    /\ UNCHANGED <<V, got, present>>
    /\ UNCHANGED <<callVars, packVars>>

CallGet ==
  /\ got' = get(value, V)
  /\ value' = value    \* a const member function
  /\ lastOp' = "get"
  /\ prevOp' = lastOp
  /\ prevValue' = value
  /\ thrown' = FALSE
  /\ UNCHANGED <<V, arg, present>>
  /\ UNCHANGED <<callVars, packVars>>

CallBool ==
  /\ present' = OperatorBool(value, V)
  /\ value' = value    \* a const member function
  /\ lastOp' = "bool"
  /\ prevOp' = lastOp
  /\ prevValue' = value
  /\ thrown' = FALSE
  /\ UNCHANGED <<V, arg, got>>
  /\ UNCHANGED <<callVars, packVars>>

NextOpt ==
  \/ Construct
  \/ CallReset
  \/ CallSet
  \/ CallGet
  \/ CallBool

(***************************************************************************)
(* 4b. Callable<F> with F = +[](int& i) { return i += 1; }                 *)
(***************************************************************************)
INT_MAX == 2147483647    \* int is 4 bytes wide: static_assert(sizeOf(type<int>) == 4)
INT_MIN == -2147483647 - 1

MaxBuf     == 9     \* the caller resizes the Memory to 0..MaxBuf bytes
MaxInvokes == 2     \* invocations per run

\* sizeof(int*) : a reference member of the tuple is stored as a pointer
PointerSize == 8

\* constexpr static auto size = sizeof(Tuple), Tuple = std::tuple<int&>
size == PointerSize

\* the caller's int objects: int i (and a second one), by address
AddrI == 272
AddrJ == 528
Addrs == {AddrI, AddrJ}

\* values the caller's ints hold before the first invocation
StartValues == {42, INT_MAX - 1, INT_MAX}

\* values an execution with undefined behaviour may leave behind
UBInts == {INT_MIN, 0}

Zeros(n) == [k \in 1..n |-> 0]

\* reinterpret_cast<int*&>(m[0]) = &i : the bytes of a pointer, little endian
RECURSIVE PointerBytes(_, _)
PointerBytes(a, n) ==
  IF n = 0 THEN <<>> ELSE <<a % 256>> \o PointerBytes(a \div 256, n - 1)

\* reinterpret_cast<Tuple&>(m[0]) : the pointer the first bytes spell
RECURSIVE PointerAt(_)
PointerAt(bytes) ==
  IF bytes = <<>> THEN 0 ELSE bytes[1] + 256 * PointerAt(Tail(bytes))

\* the tuple element the Callable forwards to F
asArgumentsOffByOne(mem) == PointerAt(SubSeq(mem, 2, size))
asArguments(mem) == PointerAt(SubSeq(mem, 1, size))

\* m.resize(n) : truncates, or appends value-initialised bytes
resize(mem, n) ==
  IF n <= Len(mem) THEN SubSeq(mem, 1, n) ELSE mem \o Zeros(n - Len(mem))

\* +[](int& i) { return i += 1; } : the referenced int afterwards, and the result
inc(i) == [i |-> i + 1, ret |-> i + 1]

\* assert(m.size() == size) is compiled unless NDEBUG is defined
assertHolds(mem) == Len(mem) = size

Alive == status \notin {"aborted", "crashed"}

InitCallable(builds, starts) ==
  /\ ndebug \in builds
  /\ m = <<>>
  /\ cells \in [Addrs -> starts]
  /\ status = "idle"
  /\ called = FALSE
  /\ result = 0
  /\ before = [m |-> <<>>, cells |-> cells]
  /\ invokes = 0

\* m.resize(n) in the caller
Resize ==
  \E n \in 0..MaxBuf :
    /\ Alive
    /\ m' = resize(m, n)
    /\ UNCHANGED <<ndebug, cells, status, called, result, before, invokes>>
    /\ UNCHANGED <<optVars, packVars>>

\* reinterpret_cast<int*&>(m[0]) = &i in the caller
StorePointer ==
  \E a \in Addrs :
    /\ Alive
    /\ Len(m) >= PointerSize
    /\ m' = PointerBytes(a, PointerSize) \o SubSeq(m, PointerSize + 1, Len(m))
    /\ UNCHANGED <<ndebug, cells, status, called, result, before, invokes>>
    /\ UNCHANGED <<optVars, packVars>>

\* an execution whose behaviour is undefined: any outcome
Undefined ==
  /\ status' \in {"returned", "crashed"}
  /\ called' \in BOOLEAN
  /\ cells' \in [Addrs -> UBInts]
  /\ result' \in UBInts

\* std::apply(F, tuple) : F runs on the int the tuple's reference names
Apply(p) ==
  IF p \in Addrs /\ cells[p] < INT_MAX
  THEN /\ cells' = [cells EXCEPT ![p] = inc(cells[p]).i]
       /\ result' = inc(cells[p]).ret
       /\ called' = TRUE
       /\ status' = "returned"
  ELSE Undefined  \* a pointer to no int, or signed overflow in i += 1

\* inc(m) : Callable::operator()(Memory&)
Invoke ==
  /\ Alive
  /\ invokes < MaxInvokes
  /\ invokes' = invokes + 1
  /\ before' = [m |-> m, cells |-> cells]
  /\ UNCHANGED <<ndebug, m>>
  /\ IF ~ndebug /\ ~assertHolds(m)
     THEN \* the assertion fails: abort()
          /\ status' = "aborted"
          /\ called' = FALSE
          /\ UNCHANGED <<cells, result>>
     ELSE IF Len(m) >= size
          THEN Apply(asArguments(m))
          ELSE Undefined  \* the tuple reaches past the end of the vector
  /\ UNCHANGED <<optVars, packVars>>

NextCall ==
  \/ Resize
  \/ StorePointer
  \/ Invoke

(***************************************************************************)
(* 2. TypePack                                                             *)
(***************************************************************************)
MaxPackLen == 3     \* packs of up to MaxPackLen types

TypeNames == {"int", "int32_t", "char", "double"}

\* the type a name denotes: int32_t is a typedef of int
Denotes(t) == IF t = "int32_t" THEN "int" ELSE t

\* operator==(Type<A>, Type<B>) : std::is_same_v<A, B>
TypeEq(a, b) == Denotes(a) = Denotes(b)

\* append(TypePack<A...>, Type<B>) -> TypePack<A..., B>
append(pack, b) == pack \o <<b>>

\* operator==(TypePack<A...>, TypePack<B...>)
PackEqPrefix(a, b) ==
  \A k \in 1..(IF Len(a) < Len(b) THEN Len(a) ELSE Len(b)) : TypeEq(a[k], b[k])
PackEq(a, b) ==
  IF Len(a) # Len(b) THEN FALSE
  ELSE \A k \in 1..Len(a) : TypeEq(a[k], b[k])

InitPacks ==
  /\ packA = <<>>
  /\ packB = <<>>
  /\ packOp = "none"
  /\ packArg = <<>>
  /\ appended = <<>>
  /\ equal = FALSE

\* packA = append(packA, type<B>)
AppendA ==
  \E b \in TypeNames :
    /\ Len(packA) < MaxPackLen
    /\ packA' = append(packA, b)
    /\ packOp' = "append"
    /\ packArg' = <<packA, b>>
    /\ appended' = append(packA, b)
    /\ UNCHANGED <<packB, equal>>
    /\ UNCHANGED <<optVars, callVars>>

\* packB = append(packB, type<B>)
AppendB ==
  \E b \in TypeNames :
    /\ Len(packB) < MaxPackLen
    /\ packB' = append(packB, b)
    /\ packOp' = "append"
    /\ packArg' = <<packB, b>>
    /\ appended' = append(packB, b)
    /\ UNCHANGED <<packA, equal>>
    /\ UNCHANGED <<optVars, callVars>>

\* packA == packB
Compare ==
  /\ packOp' = "compare"
  /\ packArg' = <<packA, packB>>
  /\ equal' = PackEq(packA, packB)
  /\ UNCHANGED <<packA, packB, appended>>
  /\ UNCHANGED <<optVars, callVars>>

NextPack ==
  \/ AppendA
  \/ AppendB
  \/ Compare

(***************************************************************************)
(* Specifications                                                          *)
(***************************************************************************)
\* the other two mechanisms stay as constructed while one is exercised
InitOpt  == InitOptObject(Values) /\ InitCallable({FALSE}, {42}) /\ InitPacks
InitCall == InitOptObject({0}) /\ InitCallable(BOOLEAN, StartValues) /\ InitPacks
InitPack == InitOptObject({0}) /\ InitCallable({FALSE}, {42}) /\ InitPacks

SpecOpt  == InitOpt /\ [][NextOpt]_vars
SpecCall == InitCall /\ [][NextCall]_vars
SpecPack == InitPack /\ [][NextPack]_vars

(***************************************************************************)
(* Properties of Optional<Value<V>>, checked under SpecOpt                 *)
(***************************************************************************)

\* C1: a freshly constructed Optional is empty: its conversion to bool is
\* false and get() returns invalidValue, for every template argument V.
C1_FreshIsEmpty ==
  lastOp = "construct" =>
    /\ OperatorBool(value, V) = FALSE
    /\ get(value, V) = invalidValue(V)

C1_Witness == lastOp = "construct" /\ prevOp = "none" /\ V = MaxValue

C9_PresentIffNotSentinel ==
  /\ OperatorBool(value, V) <=> (get(value, V) # invalidValue(V))
  /\ lastOp = "bool" => (present <=> (value # V))

C9_Witness == lastOp = "bool" /\ present /\ value = 0 /\ prevOp = "set"

\* C10: get() and the conversion to bool leave the stored value as it was and
\* signal nothing, and get() returns the stored value, present or empty.
C10_ObserversPure ==
  lastOp \in {"get", "bool"} =>
    /\ value = prevValue
    /\ thrown = FALSE
    /\ lastOp = "get" => got = value

C10_Witness ==
  lastOp = "get" /\ prevOp = "bool" /\ value # invalidValue(V) /\ got = value

(***************************************************************************)
(* Properties of Callable, checked under SpecCall                          *)
(***************************************************************************)

\* the last invocation got a buffer of exactly Callable::size bytes that
\* holds a pointer to the int at address a
HeldPointerTo(a) == invokes > 0 /\ before.m = PointerBytes(a, size)

\* b is the successor of a, as an int
IsSucc(a, b) == a < INT_MAX /\ b = a + 1

\* C5 as stated: for a buffer of exactly Callable::size bytes holding a
\* pointer to an int with value n, the invocation returns n + 1 and the int
\* holds n + 1 afterwards, for every n.
C5_IncrementsAnyN ==
  \A a \in Addrs :
    HeldPointerTo(a) =>
      /\ status = "returned"
      /\ IsSucc(before.cells[a], result)
      /\ IsSucc(before.cells[a], cells[a])

\* C5 amended: the same for every n below INT_MAX, where i += 1 is defined.
C5_IncrementsBelowMax ==
  \A a \in Addrs :
    (HeldPointerTo(a) /\ before.cells[a] < INT_MAX) =>
      /\ status = "returned"
      /\ result = before.cells[a] + 1
      /\ cells[a] = before.cells[a] + 1

C5_Witness ==
  /\ HeldPointerTo(AddrI)
  /\ before.cells[AddrI] = 42
  /\ status = "returned"
  /\ result = 43
  /\ cells[AddrI] = 43

\* C6: an invocation with a buffer whose length differs from Callable::size
\* reports the mismatch and does not proceed (the failed assert aborts): the
\* wrapped function is not called and no int of the caller changes.
C6_SizeMismatchStops ==
  (invokes > 0 /\ Len(before.m) # size) =>
    /\ status = "aborted"
    /\ called = FALSE
    /\ cells = before.cells

(***************************************************************************)
(* Properties of TypePack, checked under SpecPack                          *)
(***************************************************************************)

\* C8: append(TypePack<A...>, Type<B>) is the pack A..., B: one longer, B
\* last, the earlier types in place; and two packs compare equal exactly
\* when they have the same length and the same type at every position.
C8_AppendAndEquality ==
  /\ packOp = "append" =>
       /\ Len(appended) = Len(packArg[1]) + 1
       /\ appended[Len(appended)] = packArg[2]
       /\ \A k \in 1..Len(packArg[1]) : appended[k] = packArg[1][k]
  /\ packOp = "compare" =>
       (equal <=>
          /\ Len(packArg[1]) = Len(packArg[2])
          /\ [k \in 1..Len(packArg[1]) |-> Denotes(packArg[1][k])]
               = [k \in 1..Len(packArg[2]) |-> Denotes(packArg[2][k])])

C8_Witness ==
  /\ packOp = "compare"
  /\ equal
  /\ packA # packB
  /\ Len(packA) >= 2

====
